---- MODULE Spec2Model ----
(***************************************************************************)
(* SEO metadata synchronisation of the Angular SSR/SEO demo:               *)
(*   SeoService            (services/seo/seo.ts)                           *)
(*   StructuredDataService (services/structured-data/structured-data.ts)   *)
(*   UserService, resolvers and the page components that call them.        *)
(*                                                                         *)
(* The document head is the only shared mutable state.  It is modelled as  *)
(*   title   the document title,                                           *)
(*   meta    for every meta selector the contents of the <meta> elements   *)
(*           matching it, in document order,                               *)
(*   links   the hrefs of the link[rel=canonical] elements, in order,      *)
(*   scripts the JSON-LD <script> elements (id and text), in order.        *)
(* A JavaScript object is a function whose DOMAIN holds the properties     *)
(* that are present; reading a missing property gives undefined.           *)
(***************************************************************************)
EXTENDS Integers, Sequences, FiniteSets, TLC

VARIABLES
  head,     \* the document head
  last,     \* the most recent call on a head service
  ncalls,   \* number of calls (navigations) made so far
  route,    \* the activated route and its component instance
  comp,     \* the fields of the live UserDetailComponent
  pending,  \* getUserById results not yet delivered, oldest first
  emitted   \* the most recent notification of a getUserById observable

pageVars == <<route, comp, pending, emitted>>

vars == <<head, last, ncalls, route, comp, pending, emitted>>

(***************************************************************************)
(* Bounds of the exploration.                                              *)
(***************************************************************************)
\* number of service calls explored from the empty head
MaxCalls == 3
\* number of optional SeoData fields present in a generated input record
MaxOptional == 1
\* number of navigations explored from application start
MaxNavs == 4
\* the longest breadcrumb trail handed to createBreadcrumbSchema
MaxCrumbs == 2
\* the most pieces of a path handed to getFullUrl
MaxPathLen == 3

(***************************************************************************)
(* JavaScript values.                                                      *)
(***************************************************************************)
Has(o, f) == f \in DOMAIN o

\* `o.f` used as a condition on a string property: present and not ''
Truthy(o, f) == Has(o, f) /\ o[f] /= ""

\* `o.f || d` on a string property
OrElse(o, f, d) == IF Truthy(o, f) THEN o[f] ELSE d

\* `o.f` used as a condition on a boolean property
TruthyFlag(o, f) == Has(o, f) /\ o[f]

RECURSIVE Join(_, _)
\* Array.prototype.join
Join(ks, sep) ==
  IF ks = <<>> THEN ""
  ELSE IF Len(ks) = 1 THEN ks[1]
  ELSE ks[1] \o sep \o Join(Tail(ks), sep)

(***************************************************************************)
(* The document head.                                                      *)
(***************************************************************************)
MetaKeys ==
  { "name=description", "name=keywords", "name=author", "name=robots",
    "property=og:title", "property=og:description", "property=og:image",
    "property=og:url", "property=og:type", "property=og:site_name",
    "property=og:locale", "property=og:image:width",
    "property=og:image:height",
    "name=twitter:card", "name=twitter:title", "name=twitter:description",
    "name=twitter:image", "name=twitter:site", "name=twitter:creator",
    "property=article:published_time", "property=article:modified_time" }

EmptyHead ==
  [ title   |-> "",
    meta    |-> [k \in MetaKeys |-> <<>>],
    links   |-> <<>>,
    scripts |-> <<>> ]

\* UpdateTag as Meta.addTag would do it: a new element on every call
UpdateTag_append(h, k, c) == [h EXCEPT !.meta[k] = Append(@, c)]

\* Meta.updateTag: the first element matching the selector gets the new
\* content; without a match one element is created.
UpdateTag(h, k, c) ==
  [h EXCEPT !.meta[k] = IF @ = <<>> THEN <<c>> ELSE <<c>> \o Tail(@)]

\* Meta.removeTag: removes the first element matching the selector, if any.
RemoveTag(h, k) ==
  [h EXCEPT !.meta[k] = IF @ = <<>> THEN @ ELSE Tail(@)]

\* querySelector('link[rel="canonical"]') followed by remove()
RemoveCanonical(h) ==
  [h EXCEPT !.links = IF @ = <<>> THEN @ ELSE Tail(@)]

(***************************************************************************)
(* SeoService.                                                             *)
(***************************************************************************)
setTitle(h, t) == [h EXCEPT !.title = t]

\* setDescription as Meta.addTag would do it: one more tag on every call
setDescription_add(h, d) ==
  [h EXCEPT !.meta["name=description"] = Append(@, d)]

setDescription(h, d) == UpdateTag(h, "name=description", d)

\* setKeywords joining with a bare comma
setKeywords_comma(h, ks) == UpdateTag(h, "name=keywords", Join(ks, ","))

setKeywords(h, ks) == UpdateTag(h, "name=keywords", Join(ks, ", "))

\* setCanonicalUrl without the removal of the existing link
setCanonicalUrl_keepOld(h, url) == [h EXCEPT !.links = Append(@, url)]

setCanonicalUrl(h, url) ==
  LET removed == RemoveCanonical(h)
  IN  [removed EXCEPT !.links = Append(@, url)]

\* setRobots that only creates the tag when the head has none
setRobots_onlyIfAbsent(h, shouldIndex) ==
  IF h.meta["name=robots"] /= <<>> THEN h
  ELSE UpdateTag(h, "name=robots",
                 IF shouldIndex THEN "index,follow" ELSE "noindex,nofollow")

setRobots(h, shouldIndex) ==
  UpdateTag(h, "name=robots",
            IF shouldIndex THEN "index,follow" ELSE "noindex,nofollow")

\* setOgTags that skips a core tag whose content is empty
setOgTags_skipEmpty(h, d) ==
  LET Put(g, k, c) == IF c = "" THEN g ELSE UpdateTag(g, k, c)
      h1 == Put(h,  "property=og:title", d.title)
      h2 == Put(h1, "property=og:description", d.description)
      h3 == Put(h2, "property=og:image", d.image)
      h4 == Put(h3, "property=og:url", d.url)
      h5 == UpdateTag(h4, "property=og:type", d.type)
      h6 == IF Truthy(d, "siteName")
            THEN UpdateTag(h5, "property=og:site_name", d.siteName) ELSE h5
      h7 == IF Truthy(d, "locale")
            THEN UpdateTag(h6, "property=og:locale", d.locale) ELSE h6
      h8 == UpdateTag(h7, "property=og:image:width", "1200")
  IN  UpdateTag(h8, "property=og:image:height", "630")

setOgTags(h, d) ==
  LET h1 == UpdateTag(h,  "property=og:title", d.title)
      h2 == UpdateTag(h1, "property=og:description", d.description)
      h3 == UpdateTag(h2, "property=og:image", d.image)
      h4 == UpdateTag(h3, "property=og:url", d.url)
      h5 == UpdateTag(h4, "property=og:type", d.type)
      h6 == IF Truthy(d, "siteName")
            THEN UpdateTag(h5, "property=og:site_name", d.siteName) ELSE h5
      h7 == IF Truthy(d, "locale")
            THEN UpdateTag(h6, "property=og:locale", d.locale) ELSE h6
      h8 == UpdateTag(h7, "property=og:image:width", "1200")
  IN  UpdateTag(h8, "property=og:image:height", "630")

setTwitterTags(h, d) ==
  LET h1 == UpdateTag(h,  "name=twitter:card", d.card)
      h2 == UpdateTag(h1, "name=twitter:title", d.title)
      h3 == UpdateTag(h2, "name=twitter:description", d.description)
      h4 == UpdateTag(h3, "name=twitter:image", d.image)
      h5 == IF Truthy(d, "site")
            THEN UpdateTag(h4, "name=twitter:site", d.site) ELSE h4
  IN  IF Truthy(d, "creator")
      THEN UpdateTag(h5, "name=twitter:creator", d.creator) ELSE h5

\* the object literal handed to setOgTags: siteName and locale are copied
\* as they are, so they stay absent when the record has none
OgArgument(data) ==
  LET core == [ title       |-> OrElse(data, "title", ""),
                description |-> OrElse(data, "description", ""),
                image       |-> OrElse(data, "image", ""),
                url         |-> OrElse(data, "url", ""),
                type        |-> OrElse(data, "type", "website") ]
      opt  == [f \in {"siteName", "locale"} \cap DOMAIN data |-> data[f]]
  IN  core @@ opt

\* the setTwitterTags argument with the small card
TwitterArgument_summary(data) ==
  [ card        |-> "summary",
    title       |-> OrElse(data, "title", ""),
    description |-> OrElse(data, "description", ""),
    image       |-> OrElse(data, "image", "") ]

TwitterArgument(data) ==
  [ card        |-> "summary_large_image",
    title       |-> OrElse(data, "title", ""),
    description |-> OrElse(data, "description", ""),
    image       |-> OrElse(data, "image", "") ]

setSeoData(h, data) ==
  LET h1 == IF Truthy(data, "title") THEN setTitle(h, data.title) ELSE h
      h2 == IF Truthy(data, "description")
            THEN setDescription(h1, data.description) ELSE h1
      h3 == IF Has(data, "keywords") /\ Len(data.keywords) > 0
            THEN setKeywords(h2, data.keywords) ELSE h2
      h4 == IF Truthy(data, "url") THEN setCanonicalUrl(h3, data.url) ELSE h3
      h5 == setRobots(h4, ~TruthyFlag(data, "noIndex"))
      h6 == setOgTags(h5, OgArgument(data))
      h7 == setTwitterTags(h6, TwitterArgument(data))
      h8 == IF Truthy(data, "publishedTime")
            THEN UpdateTag(h7, "property=article:published_time",
                           data.publishedTime)
            ELSE h7
      h9 == IF Truthy(data, "modifiedTime")
            THEN UpdateTag(h8, "property=article:modified_time",
                           data.modifiedTime)
            ELSE h8
  IN  IF Truthy(data, "author")
      THEN UpdateTag(h9, "name=author", data.author) ELSE h9

\* the selectors clearAllTags removes, in the order of the code
ClearedKeys ==
  << "name=description", "name=keywords", "name=author", "name=robots",
     "property=og:title", "property=og:description", "property=og:image",
     "property=og:url", "property=og:type", "property=og:site_name",
     "property=og:locale",
     "name=twitter:card", "name=twitter:title", "name=twitter:description",
     "name=twitter:image", "name=twitter:site", "name=twitter:creator" >>

RECURSIVE RemoveTags(_, _)
RemoveTags(h, ks) ==
  IF ks = <<>> THEN h ELSE RemoveTags(RemoveTag(h, Head(ks)), Tail(ks))

\* clearAllTags that also empties the document title
clearAllTags_resetTitle(h) ==
  [RemoveCanonical(RemoveTags(h, ClearedKeys)) EXCEPT !.title = ""]

clearAllTags(h) == RemoveCanonical(RemoveTags(h, ClearedKeys))

(***************************************************************************)
(* JSON-LD documents.  An object is the sequence of its properties in      *)
(* insertion order; a property holds a string, a nested object, or         *)
(* undefined.  A number is held as its decimal text, an array as the       *)
(* sequence of its elements, which are objects.                            *)
(***************************************************************************)
Str(k, v) == [ k |-> k, kind |-> "string", s |-> v, o |-> <<>> ]

Obj(k, entries) == [ k |-> k, kind |-> "object", s |-> "", o |-> entries ]

Undef(k) == [ k |-> k, kind |-> "undefined", s |-> "", o |-> <<>> ]

NumProp(k, n) == [ k |-> k, kind |-> "number", s |-> ToString(n), o |-> <<>> ]

Arr(k, elems) == [ k |-> k, kind |-> "array", s |-> "", o |-> elems ]

\* `k: o.f` in an object literal
Prop(k, o, f) == IF Has(o, f) THEN Str(k, o[f]) ELSE Undef(k)

RECURSIVE Indent(_)
Indent(n) == IF n = 0 THEN "" ELSE "  " \o Indent(n - 1)

IsDefined(e) == e.kind /= "undefined"

RECURSIVE StringifyObject(_, _)
RECURSIVE StringifyEntries(_, _)
RECURSIVE StringifyElements(_, _)

\* JSON.stringify(data, null, 2) of an object at nesting depth n: properties
\* whose value is undefined are left out, the others appear in insertion
\* order, one per line, indented by two spaces per level.  (The strings of
\* the model hold no character that JSON escapes.)
StringifyObject(entries, n) ==
  LET defined == SelectSeq(entries, IsDefined)
  IN  IF defined = <<>> THEN "{}"
      ELSE "{\n" \o StringifyEntries(defined, n + 1) \o "\n"
             \o Indent(n) \o "}"

StringifyEntries(entries, n) ==
  LET e    == Head(entries)
      text == Indent(n) \o "\"" \o e.k \o "\": " \o
                (IF e.kind = "string" THEN "\"" \o e.s \o "\""
                 ELSE IF e.kind = "number" THEN e.s
                 ELSE IF e.kind = "array"
                 THEN (IF e.o = <<>> THEN "[]"
                       ELSE "[\n" \o StringifyElements(e.o, n + 1) \o "\n"
                              \o Indent(n) \o "]")
                 ELSE StringifyObject(e.o, n))
  IN  IF Len(entries) = 1 THEN text
      ELSE text \o ",\n" \o StringifyEntries(Tail(entries), n)

\* the elements of an array, one object after the other
StringifyElements(elems, n) ==
  LET text == Indent(n) \o StringifyObject(Head(elems).o, n)
  IN  IF Len(elems) = 1 THEN text
      ELSE text \o ",\n" \o StringifyElements(Tail(elems), n)

Stringify(data) == StringifyObject(data, 0)

(***************************************************************************)
(* StructuredDataService.                                                  *)
(***************************************************************************)
getScriptId(id) == "structured-data-" \o id

\* a removal that finds no element
RemoveFirst_none(scripts, scriptId) == scripts

RECURSIVE RemoveFirst(_, _)
\* getElementById followed by remove(): the first element with the id goes
RemoveFirst(scripts, scriptId) ==
  IF scripts = <<>> THEN <<>>
  ELSE IF Head(scripts).id = scriptId THEN Tail(scripts)
  ELSE <<Head(scripts)>> \o RemoveFirst(Tail(scripts), scriptId)

\* removeStructuredData that drops every JSON-LD script of the head
removeStructuredData_all(h, id) == [h EXCEPT !.scripts = <<>>]

removeStructuredData(h, id) ==
  LET scriptId == getScriptId(id)
  IN  [h EXCEPT !.scripts = RemoveFirst(@, scriptId)]

\* addStructuredData that appends its script without removing the one the
\* id already has
addStructuredData_noRemove(h, data, id) ==
  [h EXCEPT !.scripts = Append(@, [ type |-> "application/ld+json",
                                    text |-> Stringify(data),
                                    id   |-> getScriptId(id) ])]

addStructuredData(h, data, id) ==
  LET removed == removeStructuredData(h, id)
      script  == [ type |-> "application/ld+json",
                   text |-> Stringify(data),
                   id   |-> getScriptId(id) ]
  IN  [removed EXCEPT !.scripts = Append(@, script)]

\* createPersonSchema
createPersonSchema(user) ==
  << Str("@context", "https://schema.org/"), Str("@type", "Person"),
     Prop("name", user, "name") >>
  \o (IF Truthy(user, "jobTitle") THEN <<Str("jobTitle", user.jobTitle)>>
      ELSE <<>>)
  \o (IF Truthy(user, "email") THEN <<Str("email", user.email)>> ELSE <<>>)
  \o (IF Truthy(user, "phone") THEN <<Str("telephone", user.phone)>>
      ELSE <<>>)
  \o (IF Truthy(user, "avatar") THEN <<Str("image", user.avatar)>> ELSE <<>>)
  \o (IF Truthy(user, "website") THEN <<Str("url", user.website)>> ELSE <<>>)
  \o (IF Has(user, "address")
      THEN << Obj("address",
                  << Str("@type", "PostalAddress"),
                     Prop("streetAddress", user.address, "street"),
                     Prop("addressLocality", user.address, "city"),
                     Prop("postalCode", user.address, "zipcode") >>) >>
      ELSE <<>>)
  \o (IF Has(user, "company")
      THEN <<Prop("worksFor", user.company, "name")>> ELSE <<>>)

createOrganizationSchema(data) ==
  << Str("@context", "https://schema.org/"), Str("@type", "Organization"),
     Prop("name", data, "name"), Prop("url", data, "url") >>
  \o (IF Truthy(data, "description")
      THEN <<Str("description", data.description)>> ELSE <<>>)
  \o (IF Truthy(data, "logo") THEN <<Str("logo", data.logo)>> ELSE <<>>)
  \o (IF Truthy(data, "contactPhone") \/ Truthy(data, "contactEmail")
      THEN << Obj("contactPoint",
                  << Str("@type", "ContactPoint"),
                     Str("contactType", "customer service"),
                     Str("telephone", OrElse(data, "contactPhone", "")),
                     Prop("email", data, "contactEmail") >>) >>
      ELSE <<>>)

createWebSiteSchema(data) ==
  << Str("@context", "https://schema.org/"), Str("@type", "WebSite"),
     Prop("name", data, "name"), Prop("url", data, "url") >>
  \o (IF Truthy(data, "description")
      THEN <<Str("description", data.description)>> ELSE <<>>)
  \o (IF Truthy(data, "searchUrl")
      THEN << Obj("potentialAction",
                  << Str("@type", "SearchAction"),
                     Str("target", data.searchUrl),
                     Str("query-input",
                         "required name=search_term_string") >>) >>
      ELSE <<>>)

\* the callback of breadcrumbs.map, for the crumb at the 0-based index
ListItem(crumb, index) ==
  Obj("", << Str("@type", "ListItem"), NumProp("position", index + 1),
             Prop("name", crumb, "name") >>
          \o (IF Truthy(crumb, "url") THEN <<Str("item", crumb.url)>>
              ELSE <<>>))

createBreadcrumbSchema(breadcrumbs) ==
  << Str("@context", "https://schema.org/"), Str("@type", "BreadcrumbList"),
     Arr("itemListElement",
         [i \in 1..Len(breadcrumbs) |-> ListItem(breadcrumbs[i], i - 1)]) >>

(***************************************************************************)
(* ConfigService.                                                          *)
(***************************************************************************)
baseUrl == "https://angular-ssr-demo.example.com"

siteName == "Angular SSR Demo"

defaultOgImage ==
  "https://images.unsplash.com/photo-1460925895917-afdab827c52f?w=1200&h=630&fit=crop"

defaultLocale == "en_US"

RECURSIVE Concat(_)
\* the text of a path given as its pieces: "/" or a run without a slash
Concat(pieces) ==
  IF pieces = <<>> THEN "" ELSE Head(pieces) \o Concat(Tail(pieces))

getFullUrl(path) ==
  LET cleanPath == IF path /= <<>> /\ Head(path) = "/" THEN Tail(path)
                   ELSE path
  IN  baseUrl \o "/" \o Concat(cleanPath)

(***************************************************************************)
(* UserService.                                                            *)
(***************************************************************************)
mockUsers ==
  << [ id |-> 1, name |-> "Alice Johnson", username |-> "alicej",
       email |-> "alice.johnson@example.com", phone |-> "+1-555-0101",
       website |-> "https://alicejohnson.dev",
       company |-> [ name |-> "TechCorp Solutions",
                     catchPhrase |-> "Innovating the future of technology" ],
       address |-> [ street |-> "123 Tech Lane", city |-> "San Francisco",
                     zipcode |-> "94102" ],
       avatar |-> "https://images.unsplash.com/photo-1494790108377-be9c29b29330?w=1200&h=630&fit=crop",
       bio |-> "Full-stack developer passionate about Angular and TypeScript. Building scalable web applications with modern best practices.",
       jobTitle |-> "Senior Software Engineer" ],
     [ id |-> 2, name |-> "Bob Martinez", username |-> "bobm",
       email |-> "bob.martinez@example.com", phone |-> "+1-555-0102",
       website |-> "https://bobmartinez.com",
       company |-> [ name |-> "DataDrive Inc",
                     catchPhrase |-> "Driving data-driven decisions" ],
       address |-> [ street |-> "456 Data Street", city |-> "Austin",
                     zipcode |-> "78701" ],
       avatar |-> "https://images.unsplash.com/photo-1500648767791-00dcc994a43e?w=1200&h=630&fit=crop",
       bio |-> "Data scientist and machine learning enthusiast. Transforming raw data into actionable insights for businesses.",
       jobTitle |-> "Lead Data Scientist" ],
     [ id |-> 3, name |-> "Carol Wang", username |-> "carolw",
       email |-> "carol.wang@example.com", phone |-> "+1-555-0103",
       website |-> "https://carolwang.design",
       company |-> [ name |-> "Creative Studios",
                     catchPhrase |-> "Designing experiences that matter" ],
       address |-> [ street |-> "789 Design Blvd", city |-> "New York",
                     zipcode |-> "10001" ],
       avatar |-> "https://images.unsplash.com/photo-1438761681033-6461ffad8d80?w=1200&h=630&fit=crop",
       bio |-> "UX/UI designer with a focus on accessible and inclusive design. Creating beautiful, user-friendly interfaces.",
       jobTitle |-> "Principal UX Designer" ],
     [ id |-> 4, name |-> "David Kumar", username |-> "davidk",
       email |-> "david.kumar@example.com", phone |-> "+1-555-0104",
       company |-> [ name |-> "CloudScale Systems",
                     catchPhrase |-> "Scaling to infinity and beyond" ],
       address |-> [ street |-> "321 Cloud Ave", city |-> "Seattle",
                     zipcode |-> "98101" ],
       avatar |-> "https://images.unsplash.com/photo-1507003211169-0a1dd7228f2d?w=1200&h=630&fit=crop",
       bio |-> "DevOps engineer specializing in cloud infrastructure and automation. Building robust, scalable systems.",
       jobTitle |-> "DevOps Architect" ],
     [ id |-> 5, name |-> "Emma Schmidt", username |-> "emmas",
       email |-> "emma.schmidt@example.com", phone |-> "+1-555-0105",
       website |-> "https://emmaschmidt.io",
       company |-> [ name |-> "SecureNet Technologies",
                     catchPhrase |-> "Protecting your digital future" ],
       address |-> [ street |-> "654 Security Way", city |-> "Boston",
                     zipcode |-> "02101" ],
       avatar |-> "https://images.unsplash.com/photo-1487412720507-e7ab37603c6f?w=1200&h=630&fit=crop",
       bio |-> "Cybersecurity expert focused on application security and threat prevention. Keeping the web safe.",
       jobTitle |-> "Security Engineer" ] >>

\* a JavaScript number: an integer, or NaN
Num(n) == [ nan |-> FALSE, n |-> n ]

NaN == [ nan |-> TRUE, n |-> 0 ]

\* `u.id === id`, which is false when id is NaN
IdEquals(u, id) == ~id.nan /\ u.id = id.n

\* a lookup that answers with the first mock user whatever the id
getUserById_first(id) == [ kind |-> "next", user |-> mockUsers[1] ]

\* the notification getUserById(id) delivers after its delay: always a
\* `next`; Array.find gives the first user with the id, and the first mock
\* user stands in when there is none
getUserById(id) ==
  LET found == SelectSeq(mockUsers, LAMBDA u : IdEquals(u, id))
      user  == IF found /= <<>> THEN Head(found) ELSE mockUsers[1]
  IN  [ kind |-> "next", user |-> user ]

(***************************************************************************)
(* Route parameters and resolvers.                                         *)
(***************************************************************************)
Digits ==
  [ c \in {"0", "1", "2", "3", "4", "5", "6", "7", "8", "9"} |->
      CASE c = "0" -> 0 [] c = "1" -> 1 [] c = "2" -> 2 [] c = "3" -> 3
        [] c = "4" -> 4 [] c = "5" -> 5 [] c = "6" -> 6 [] c = "7" -> 7
        [] c = "8" -> 8 [] c = "9" -> 9 ]

RECURSIVE DecimalValue(_, _)
DecimalValue(chars, acc) ==
  IF chars = <<>> THEN acc
  ELSE DecimalValue(Tail(chars), 10 * acc + Digits[Head(chars)])

\* Number(param) of a route parameter given as its characters: the value of
\* a run of decimal digits, 0 for the empty string, NaN for other text
Number(chars) ==
  IF \A i \in 1..Len(chars) : chars[i] \in DOMAIN Digits
  THEN Num(DecimalValue(chars, 0)) ELSE NaN

homeSeoResolver ==
  [ title       |-> siteName \o " - Modern Angular SSR with Complete SEO",
    description |-> "A comprehensive demonstration of Angular Server-Side Rendering with full SEO optimization including meta tags, Open Graph, Twitter Cards, structured data, and more.",
    keywords    |-> << "angular", "ssr", "server-side rendering", "seo",
                       "meta tags", "open graph", "twitter cards",
                       "angular 20", "web development" >>,
    image       |-> "https://images.unsplash.com/photo-1460925895917-afdab827c52f?w=1200&h=630&fit=crop",
    url         |-> baseUrl,
    type        |-> "website",
    siteName    |-> siteName,
    locale      |-> defaultLocale ]

aboutSeoResolver ==
  [ title       |-> "About Us - " \o siteName,
    description |-> "Learn about our Angular SSR demo application showcasing modern web development best practices, including server-side rendering, complete SEO optimization, and performance excellence.",
    keywords    |-> << "about", "angular", "ssr", "web development",
                       "best practices", "modern web", "performance",
                       "seo optimization" >>,
    image       |-> "https://images.unsplash.com/photo-1519389950473-47ba0277781c?w=1200&h=630&fit=crop",
    url         |-> getFullUrl(<<"/", "about">>),
    type        |-> "website",
    siteName    |-> siteName ]

\* `${o?.f}` in a template literal
TemplateText(o, holder, f) ==
  IF Has(o, holder) /\ Has(o[holder], f) THEN o[holder][f] ELSE "undefined"

\* [v].filter(Boolean) for one optional string
Kept(o, f) == IF Truthy(o, f) THEN <<o[f]>> ELSE <<>>

\* the map callback of userDetailSeoResolver
UserDetailSeo(user) ==
  [ title       |-> user.name \o " - User Profile | " \o siteName,
    description |->
      IF Truthy(user, "bio") THEN user.bio
      ELSE "View " \o user.name \o "'s profile. "
           \o (IF Truthy(user, "jobTitle")
               THEN user.jobTitle \o " at "
                    \o TemplateText(user, "company", "name") \o ". "
               ELSE "")
           \o "Contact information, professional background, and more.",
    keywords    |-> <<"user", "profile">> \o Kept(user, "name")
                    \o Kept(user, "username") \o Kept(user, "jobTitle")
                    \o (IF Has(user, "company") THEN Kept(user.company, "name")
                        ELSE <<>>),
    image       |-> OrElse(user, "avatar", defaultOgImage),
    url         |-> getFullUrl(<<"/", "users", "/", ToString(user.id)>>),
    type        |-> "profile",
    author      |-> user.name,
    siteName    |-> siteName ]

\* userDetailSeoResolver: the lookup it subscribes to, for the id parameter
userDetailSeoResolver(param) == getUserById(Number(param))

(***************************************************************************)
(* Input records of the service calls.                                     *)
(***************************************************************************)
\* the record of the test 'should set all SEO data at once'
CompleteSeoData ==
  [ title         |-> "Complete Test Page",
    description   |-> "A complete test description",
    keywords      |-> <<"test", "seo", "angular">>,
    image         |-> "https://example.com/image.jpg",
    url           |-> "https://example.com/test",
    type          |-> "article",
    noIndex       |-> FALSE,
    author        |-> "Test Author",
    publishedTime |-> "2024-01-01T00:00:00Z",
    modifiedTime  |-> "2024-01-02T00:00:00Z",
    siteName      |-> "Test Site",
    locale        |-> "en_US" ]

\* the record of the test 'should set all Open Graph tags'
OgSeoData ==
  [ title       |-> "Test Title",
    description |-> "Test Description",
    image       |-> "https://example.com/image.jpg",
    url         |-> "https://example.com/page",
    type        |-> "website",
    siteName    |-> "Test Site",
    locale      |-> "en_US" ]

\* the record of the test 'should handle minimal SEO data'
MinimalSeoData == [ title |-> "Minimal Page" ]

\* the record of the test 'should handle noIndex flag'
NoIndexSeoData ==
  [ title       |-> "No Index Page",
    description |-> "This page should not be indexed",
    noIndex     |-> TRUE ]

\* a second fully specified record, different from CompleteSeoData in
\* every field
OtherSeoData ==
  [ title         |-> "Other Page",
    description   |-> "Another description",
    keywords      |-> <<"other">>,
    image         |-> "https://example.com/other.jpg",
    url           |-> "https://example.com/other",
    type          |-> "profile",
    noIndex       |-> TRUE,
    author        |-> "Other Author",
    publishedTime |-> "2025-05-05T00:00:00Z",
    modifiedTime  |-> "2025-06-06T00:00:00Z",
    siteName      |-> "Other Site",
    locale        |-> "de_DE" ]

\* the record whose fields are all undefined
EmptySeoData == [f \in {} |-> ""]

OptionalFields == DOMAIN CompleteSeoData \ {"title"}

\* the records that keep the title and at most MaxOptional optional fields
\* of a fully specified record
Projections(full) ==
  { [f \in D \cup {"title"} |-> full[f]] :
      D \in { E \in SUBSET OptionalFields : Cardinality(E) <= MaxOptional } }

SeoDataSet ==
  Projections(CompleteSeoData) \cup Projections(OtherSeoData)
    \cup { CompleteSeoData, OgSeoData, MinimalSeoData, NoIndexSeoData,
           [title |-> ""], EmptySeoData }

TitleSet == { "", "Test Page" }
DescriptionSet == { "First description", "Updated description" }
KeywordsSet == { <<>>, <<"angular">>, <<"a", "b", "c">> }
UrlSet == { "https://example.com/old", "https://example.com/new" }

(***************************************************************************)
(* The service called directly, from the empty head.  `last` records the   *)
(* most recent call: its name, its argument and the head it started from.  *)
(***************************************************************************)
\* who made a call: the page component, its instance, and whether that
\* instance had already been destroyed; direct calls come from no page
Caller == [ page |-> "none", inst |-> 0, left |-> FALSE ]

NoCall ==
  [ op |-> "none", data |-> [none |-> TRUE], before |-> EmptyHead,
    by |-> Caller ]

Call(op, data, h) ==
  /\ ncalls < MaxCalls
  /\ ncalls' = ncalls + 1
  /\ head' = h
  /\ last' = [ op |-> op, data |-> data, before |-> head, by |-> Caller ]
  /\ UNCHANGED pageVars

NoRoute == [ page |-> "none", param |-> <<>>, inst |-> 0, seo |-> [none |-> TRUE] ]

NoComponent == [ user |-> <<>>, loading |-> TRUE, userId |-> [nan |-> FALSE, n |-> 0] ]

NoEmission == [ kind |-> "none", id |-> [nan |-> FALSE, n |-> 0], user |-> <<>> ]

Init ==
  /\ head = EmptyHead
  /\ last = NoCall
  /\ ncalls = 0
  /\ route = NoRoute
  /\ comp = NoComponent
  /\ pending = <<>>
  /\ emitted = NoEmission

SetSeoData ==
  \E d \in SeoDataSet : Call("setSeoData", d, setSeoData(head, d))

SetTitle ==
  \E t \in TitleSet : Call("setTitle", [title |-> t], setTitle(head, t))

SetDescription ==
  \E d \in DescriptionSet :
    Call("setDescription", [description |-> d], setDescription(head, d))

SetKeywords ==
  \E ks \in KeywordsSet :
    Call("setKeywords", [keywords |-> ks], setKeywords(head, ks))

SetCanonicalUrl ==
  \E u \in UrlSet :
    Call("setCanonicalUrl", [url |-> u], setCanonicalUrl(head, u))

SetRobots ==
  \E b \in BOOLEAN :
    Call("setRobots", [shouldIndex |-> b], setRobots(head, b))

ClearAllTags == Call("clearAllTags", [none |-> TRUE], clearAllTags(head))

Next ==
  \/ SetSeoData
  \/ SetTitle
  \/ SetDescription
  \/ SetKeywords
  \/ SetCanonicalUrl
  \/ SetRobots
  \/ ClearAllTags

Spec == Init /\ [][Next]_vars

TypeOK ==
  /\ head.title \in STRING
  /\ DOMAIN head.meta = MetaKeys
  /\ ncalls \in Nat

(***************************************************************************)
(* Properties of SeoService, checked under Spec.                           *)
(***************************************************************************)
AfterSetSeoData == last.op = "setSeoData"

\* C1: idempotence of setSeoData.  In every state reached by setSeoData(M),
\* applying M once more leaves title, meta tags and canonical link as they
\* are, and no selector (and not the canonical link) has a second element.
C1_Idempotence ==
  AfterSetSeoData =>
    LET again == setSeoData(head, last.data)
    IN  /\ again = head
        /\ Len(again.links) <= 1
        /\ \A k \in MetaKeys : Len(again.meta[k]) <= 1

\* the same record applied twice in a row, with a canonical link and
\* Open Graph tags in the head
C1_Witness ==
  /\ AfterSetSeoData
  /\ last.data = CompleteSeoData
  /\ last.before = setSeoData(EmptyHead, CompleteSeoData)
  /\ head.links = <<CompleteSeoData.url>>
  /\ head.meta["property=og:title"] = <<CompleteSeoData.title>>

SuppliesUrl ==
  \/ last.op = "setCanonicalUrl"
  \/ last.op = "setSeoData" /\ Truthy(last.data, "url")

\* C2: canonical uniqueness.  The head never holds two canonical links, and
\* right after a call that supplies a url the one link has that url.
C2_CanonicalUnique ==
  /\ Len(head.links) <= 1
  /\ SuppliesUrl => head.links = <<last.data.url>>

\* a canonical link replaced by one with another url
C2_Witness ==
  /\ SuppliesUrl
  /\ last.before.links /= <<>>
  /\ last.before.links[1] /= last.data.url
  /\ head.links = <<last.data.url>>

ArticleKeys ==
  { "property=article:published_time", "property=article:modified_time",
    "name=author" }

\* C3: history independence of setSeoData.  After setSeoData(M2) the head is
\* the one setSeoData(M2) gives on the empty head, article tags excepted.
C3_HistoryIndependent ==
  AfterSetSeoData =>
    LET fresh == setSeoData(EmptyHead, last.data)
    IN  /\ head.title = fresh.title
        /\ head.links = fresh.links
        /\ \A k \in MetaKeys \ ArticleKeys : head.meta[k] = fresh.meta[k]

RobotsContent(data) ==
  IF TruthyFlag(data, "noIndex") THEN "noindex,nofollow" ELSE "index,follow"

\* C4: robots directive totality.  After setSeoData(M) there is exactly one
\* name=robots tag; it is "index,follow" iff M.noIndex is falsy and
\* "noindex,nofollow" otherwise, whatever the head held before.
C4_RobotsTotality ==
  AfterSetSeoData =>
    /\ head.meta["name=robots"] = <<RobotsContent(last.data)>>
    /\ (head.meta["name=robots"] = <<"index,follow">>)
         <=> ~TruthyFlag(last.data, "noIndex")

\* a page without noIndex applied after a page that asked for noindex
C4_Witness ==
  /\ AfterSetSeoData
  /\ ~Has(last.data, "noIndex")
  /\ last.before.meta["name=robots"] = <<"noindex,nofollow">>
  /\ head.meta["name=robots"] = <<"index,follow">>

OgKeys ==
  { "property=og:title", "property=og:description", "property=og:image",
    "property=og:url", "property=og:type", "property=og:site_name",
    "property=og:locale", "property=og:image:width",
    "property=og:image:height" }

TwitterKeys ==
  { "name=twitter:card", "name=twitter:title", "name=twitter:description",
    "name=twitter:image", "name=twitter:site", "name=twitter:creator" }

\* C5: clearAllTags removes every managed tag.  After clearAllTags the head
\* has no description, keywords, author or robots tag, no og:* tag, no
\* twitter:* tag and no canonical link.
C5_ClearRemovesAll ==
  last.op = "clearAllTags" =>
    /\ \A k \in { "name=description", "name=keywords", "name=author",
                  "name=robots" } \cup OgKeys \cup TwitterKeys :
         head.meta[k] = <<>>
    /\ head.links = <<>>

(***************************************************************************)
(* StructuredDataService called directly, from the empty head.             *)
(***************************************************************************)
\* the document of the test 'should add structured data to document'
TestPersonDoc ==
  << Str("@context", "https://schema.org/"), Str("@type", "Person"),
     Str("name", "Test Person") >>

\* the documents of the documented tests of addStructuredData and
\* removeStructuredData
ThingDoc ==
  << Str("@context", "https://schema.org/"), Str("@type", "Thing"),
     Str("name", "Test") >>

BareThingDoc ==
  << Str("@context", "https://schema.org/"), Str("@type", "Thing") >>

DocSet == { TestPersonDoc, ThingDoc, BareThingDoc }

IdSet == { "x", "y", "test-schema" }

AddStructuredData ==
  \E d \in DocSet, id \in IdSet :
    Call("addStructuredData", [doc |-> d, id |-> id],
         addStructuredData(head, d, id))

RemoveStructuredData ==
  \E id \in IdSet :
    Call("removeStructuredData", [id |-> id], removeStructuredData(head, id))

NextStructuredData ==
  \/ AddStructuredData
  \/ RemoveStructuredData

SpecStructuredData == Init /\ [][NextStructuredData]_vars

(***************************************************************************)
(* Properties of StructuredDataService, checked under SpecStructuredData.  *)
(***************************************************************************)
\* the scripts stored under another key than "structured-data-" + id
OtherScripts(scripts, id) ==
  LET IsOther(e) == e.id /= "structured-data-" \o id
  IN  SelectSeq(scripts, IsOther)

\* C10: structured-data isolation.  addStructuredData and
\* removeStructuredData on id x leave the scripts of every other id as they
\* were (none created, changed or deleted), and after removeStructuredData(x)
\* exactly those other scripts are in the head.
C10_Isolation ==
  /\ last.op \in {"addStructuredData", "removeStructuredData"} =>
       OtherScripts(head.scripts, last.data.id)
         = OtherScripts(last.before.scripts, last.data.id)
  /\ last.op = "removeStructuredData" =>
       head.scripts = OtherScripts(last.before.scripts, last.data.id)

\* add(doc, "x"); add(doc2, "y"); remove("x") leaves the one script of "y"
\* with the text of doc2
C10_Witness ==
  /\ last.op = "removeStructuredData"
  /\ last.data.id = "x"
  /\ last.before.scripts
       = << [ type |-> "application/ld+json", id |-> "structured-data-x",
              text |-> Stringify(ThingDoc) ],
            [ type |-> "application/ld+json", id |-> "structured-data-y",
              text |-> Stringify(BareThingDoc) ] >>
  /\ head.scripts
       = << [ type |-> "application/ld+json", id |-> "structured-data-y",
              text |-> "{\n  \"@context\": \"https://schema.org/\",\n  \"@type\": \"Thing\"\n}" ] >>

\* the positions of the scripts stored under the key "structured-data-" + id
KeyAt(scripts, id) ==
  { i \in 1..Len(scripts) : scripts[i].id = "structured-data-" \o id }

\* C11: create-or-replace by id.  After any sequence of addStructuredData and
\* removeStructuredData calls from the empty head no two scripts share a key,
\* and right after addStructuredData(d, id) the head has a script under
\* "structured-data-" + id whose text is the serialization of d.
C11_CreateOrReplace ==
  /\ \A i, j \in 1..Len(head.scripts) :
       head.scripts[i].id = head.scripts[j].id => i = j
  /\ last.op = "addStructuredData" =>
       /\ KeyAt(head.scripts, last.data.id) /= {}
       /\ \A i \in KeyAt(head.scripts, last.data.id) :
            /\ head.scripts[i].type = "application/ld+json"
            /\ head.scripts[i].text = Stringify(last.data.doc)

\* the id "x" held the Thing document and was given the Person document of
\* the test: the one script of "x" now has the Person text
C11_Witness ==
  /\ last.op = "addStructuredData"
  /\ last.data.id = "x"
  /\ last.data.doc = TestPersonDoc
  /\ \E i \in 1..Len(last.before.scripts) :
       /\ last.before.scripts[i].id = "structured-data-x"
       /\ last.before.scripts[i].text = Stringify(ThingDoc)
  /\ head.scripts
       = << [ type |-> "application/ld+json", id |-> "structured-data-x",
              text |-> "{\n  \"@context\": \"https://schema.org/\",\n  \"@type\": \"Person\",\n  \"name\": \"Test Person\"\n}" ] >>

\* a sequence without its i-th element
Without(seq, i) == SubSeq(seq, 1, i - 1) \o SubSeq(seq, i + 1, Len(seq))

\* a step that is a call removeStructuredData(id)
RemoveStep == last'.op = "removeStructuredData" /\ ncalls' = ncalls + 1

\* what removeStructuredData(id) does to the head: nothing when no script
\* has the key, and otherwise one script with the key goes and the rest of
\* the head stays
RemoveEffect ==
  RemoveStep =>
    LET at == KeyAt(head.scripts, last'.data.id)
    IN  /\ at = {} => head' = head
        /\ at /= {} =>
             \E i \in at : head' = [head EXCEPT !.scripts = Without(@, i)]

\* a step removeStructuredData(id) taken right after addStructuredData(d, id)
RemoveAfterAdd ==
  /\ RemoveStep
  /\ last.op = "addStructuredData"
  /\ last.data.id = last'.data.id

\* C12 as stated: removeStructuredData(id) is a no-op when the key has no
\* script and otherwise deletes exactly that script, and addStructuredData(d,
\* id) followed by removeStructuredData(id) gives back the head as it was
\* before the add.
C12_RemoveRestores ==
  [][ /\ RemoveEffect
      /\ RemoveAfterAdd => head' = last.before ]_vars

\* C12, amended: removeStructuredData(id) is a no-op when the key has no
\* script and otherwise deletes exactly that script; addStructuredData(d, id)
\* followed by removeStructuredData(id) gives back the head as it was before
\* the add when the key had no script then, and that head without the
\* script of the key when it had one.
C12_RemoveRestoresNew ==
  [][ /\ RemoveEffect
      /\ RemoveAfterAdd =>
           LET at == KeyAt(last.before.scripts, last.data.id)
           IN  /\ at = {} => head' = last.before
               /\ at /= {} =>
                    \E i \in at :
                      head' = [last.before EXCEPT !.scripts = Without(@, i)]
    ]_vars

\* add(Person, "y"); add(Thing, "x"); remove("x"): the head is back to the
\* one script of "y"
C12_Witness ==
  /\ last.op = "removeStructuredData"
  /\ last.data.id = "x"
  /\ last.before.scripts
       = << [ type |-> "application/ld+json", id |-> "structured-data-y",
              text |-> Stringify(TestPersonDoc) ],
            [ type |-> "application/ld+json", id |-> "structured-data-x",
              text |-> Stringify(ThingDoc) ] >>
  /\ head.scripts
       = << [ type |-> "application/ld+json", id |-> "structured-data-y",
              text |-> Stringify(TestPersonDoc) ] >>

(***************************************************************************)
(* Page components.                                                        *)
(***************************************************************************)
HomeComponent_ngOnInit(h, seoData) ==
  LET h1 == setSeoData(h, seoData)
      websiteSchema ==
        createWebSiteSchema(
          [ name        |-> siteName,
            url         |-> baseUrl,
            description |-> OrElse(seoData, "description",
                                   "Angular SSR Demo Application") ])
  IN  addStructuredData(h1, websiteSchema, "website")

\* a HomeComponent that leaves its document in the head
HomeComponent_ngOnDestroy_none(h) == h

HomeComponent_ngOnDestroy(h) == removeStructuredData(h, "website")

AboutComponent_ngOnInit(h, seoData) ==
  LET h1 == setSeoData(h, seoData)
      organizationSchema ==
        createOrganizationSchema(
          [ name        |-> siteName,
            url         |-> baseUrl,
            description |-> "A comprehensive Angular SSR demonstration with complete SEO implementation",
            logo        |-> defaultOgImage ])
  IN  addStructuredData(h1, organizationSchema, "organization")

AboutComponent_ngOnDestroy(h) == removeStructuredData(h, "organization")

\* `user-${user.id}`
UserDocId(user) == "user-" \o ToString(user.id)

\* UserDetailComponent.ngOnDestroy, for the fields c of the component
UserDetailComponent_ngOnDestroy(h, c) ==
  IF c.user /= <<>> THEN removeStructuredData(h, UserDocId(c.user[1]))
  ELSE h

\* the `next` callback of the subscription made in
\* UserDetailComponent.ngOnInit, as far as it touches the head
UserDetailComponent_next(h, user) ==
  addStructuredData(h, createPersonSchema(user), UserDocId(user))

(***************************************************************************)
(* Navigation between the pages.  A navigation runs the route's resolver,  *)
(* then destroys the component of the page left and initialises the one of *)
(* the page entered.  The resolvers of the home and about routes answer at *)
(* once; the one of users/:id waits for getUserById.  All lookups have the *)
(* same delay, so their notifications arrive in the order of the calls.    *)
(* A navigation started while the detail resolver waits replaces it.       *)
(***************************************************************************)
RouteParams ==
  { <<"1">>, <<"2">>, <<"3">>, <<"4">>, <<"5">>,
    <<"9", "9", "9", "9">>, <<"a", "b", "c">> }

\* ngOnDestroy of the component of the activated route
Leave(h) ==
  CASE route.page = "home"   -> HomeComponent_ngOnDestroy(h)
    [] route.page = "about"  -> AboutComponent_ngOnDestroy(h)
    [] route.page = "detail" -> UserDetailComponent_ngOnDestroy(h, comp)
    [] OTHER                 -> h

IsComponentLookup(e) == e.kind = "component"

\* the lookups that stay subscribed when a navigation starts
KeepSubscribed(q) == SelectSeq(q, IsComponentLookup)

NavigateHome ==
  /\ ncalls < MaxNavs
  /\ route.page /= "home"
  /\ LET seoData == homeSeoResolver
         inst    == ncalls + 1
     IN  /\ head' = HomeComponent_ngOnInit(Leave(head), seoData)
         /\ route' = [ page |-> "home", param |-> <<>>, inst |-> inst,
                       seo |-> seoData ]
         /\ last' = [ op |-> "addStructuredData",
                      data |-> [id |-> "website"], before |-> head,
                      by |-> [page |-> "home", inst |-> inst,
                              left |-> FALSE] ]
  /\ comp' = NoComponent
  /\ pending' = KeepSubscribed(pending)
  /\ ncalls' = ncalls + 1
  /\ UNCHANGED emitted

NavigateAbout ==
  /\ ncalls < MaxNavs
  /\ route.page /= "about"
  /\ LET seoData == aboutSeoResolver
         inst    == ncalls + 1
     IN  /\ head' = AboutComponent_ngOnInit(Leave(head), seoData)
         /\ route' = [ page |-> "about", param |-> <<>>, inst |-> inst,
                       seo |-> seoData ]
         /\ last' = [ op |-> "addStructuredData",
                      data |-> [id |-> "organization"], before |-> head,
                      by |-> [page |-> "about", inst |-> inst,
                              left |-> FALSE] ]
  /\ comp' = NoComponent
  /\ pending' = KeepSubscribed(pending)
  /\ ncalls' = ncalls + 1
  /\ UNCHANGED emitted

\* navigation to users/:id starts: the resolver calls getUserById
NavigateDetail ==
  \E param \in RouteParams :
    /\ ncalls < MaxNavs
    /\ route.page /= "detail"
    /\ LET userId == Number(param)
       IN  pending' = Append(KeepSubscribed(pending),
                             [ kind |-> "resolver", param |-> param,
                               id |-> userId, inst |-> ncalls + 1,
                               emit |-> userDetailSeoResolver(param) ])
    /\ ncalls' = ncalls + 1
    /\ UNCHANGED <<head, last, route, comp, emitted>>

\* the resolver's lookup answers: the route is activated with the mapped
\* SeoData and UserDetailComponent.ngOnInit runs
ResolverComplete ==
  /\ pending /= <<>>
  /\ Head(pending).kind = "resolver"
  /\ LET e       == Head(pending)
         seoData == UserDetailSeo(e.emit.user)
         left    == Leave(head)
         userId  == Number(e.param)
     IN  /\ head' = setSeoData(left, seoData)
         /\ route' = [ page |-> "detail", param |-> e.param,
                       inst |-> e.inst, seo |-> seoData ]
         /\ comp' = [ user |-> <<>>, loading |-> TRUE, userId |-> userId ]
         /\ pending' = Append(Tail(pending),
                              [ kind |-> "component", param |-> e.param,
                                id |-> userId, inst |-> e.inst,
                                emit |-> getUserById(userId) ])
         /\ emitted' = [ kind |-> e.emit.kind, id |-> e.id,
                         user |-> <<e.emit.user>> ]
         /\ last' = [ op |-> "setSeoData", data |-> seoData,
                      before |-> left,
                      by |-> [page |-> "detail", inst |-> e.inst,
                              left |-> FALSE] ]
  /\ UNCHANGED ncalls

\* the lookup of a UserDetailComponent answers; nothing unsubscribes it, so
\* its callback also runs after the component was destroyed
LookupComplete ==
  /\ pending /= <<>>
  /\ Head(pending).kind = "component"
  /\ LET e    == Head(pending)
         live == route.page = "detail" /\ route.inst = e.inst
     IN  /\ head' = UserDetailComponent_next(head, e.emit.user)
         /\ comp' = IF live
                    THEN [comp EXCEPT !.user = <<e.emit.user>>,
                                      !.loading = FALSE]
                    ELSE comp
         /\ emitted' = [ kind |-> e.emit.kind, id |-> e.id,
                         user |-> <<e.emit.user>> ]
         /\ last' = [ op |-> "addStructuredData",
                      data |-> [id |-> UserDocId(e.emit.user)],
                      before |-> head,
                      by |-> [page |-> "detail", inst |-> e.inst,
                              left |-> ~live] ]
  /\ pending' = Tail(pending)
  /\ UNCHANGED <<route, ncalls>>

NextPages ==
  \/ NavigateHome
  \/ NavigateAbout
  \/ NavigateDetail
  \/ ResolverComplete
  \/ LookupComplete

SpecPages == Init /\ [][NextPages]_vars

(***************************************************************************)
(* Properties of the detail page, checked under SpecPages.                 *)
(***************************************************************************)
\* some stored user has the id
IsStored(id) == \E i \in 1..Len(mockUsers) : IdEquals(mockUsers[i], id)

StoredSeo == { UserDetailSeo(mockUsers[i]) : i \in 1..Len(mockUsers) }

\* C6: entity-not-found is surfaced.  A getUserById lookup for an id that
\* matches no stored user ends in an error, and the detail route is never
\* activated for such an id with metadata built from a stored user.
C6_NotFoundSurfaced ==
  /\ (emitted.kind /= "none" /\ ~IsStored(emitted.id))
       => emitted.kind = "error"
  /\ (route.page = "detail" /\ ~IsStored(Number(route.param)))
       => route.seo \notin StoredSeo

PersonalTitles == { UserDetailSeo(mockUsers[i]).title : i \in 1..Len(mockUsers) }

PersonalImages == { UserDetailSeo(mockUsers[i]).image : i \in 1..Len(mockUsers) }

UserScriptIds ==
  { "structured-data-user-" \o ToString(mockUsers[i].id) :
      i \in 1..Len(mockUsers) }

HasUserScript(h) ==
  \E i \in 1..Len(h.scripts) : h.scripts[i].id \in UserScriptIds

\* C7: not-found recovery.  Once the detail route has been activated for an
\* id without a matching user, the page shown is the not-found page and the
\* head carries generic metadata: a title, and no user's personalised title,
\* image or Person document.
C7_NotFoundRecovery ==
  (route.param /= <<>> /\ ~IsStored(Number(route.param))) =>
    /\ route.page = "not-found"
    /\ head.title /= ""
    /\ head.title \notin PersonalTitles
    /\ head.meta["property=og:image"] \notin { <<i>> : i \in PersonalImages }
    /\ ~HasUserScript(head)

\* C8: stale-write prevention.  No call on a head service is made on behalf
\* of a page component that has already been destroyed.
C8_NoStaleWrite == ~last.by.left

\* C9: structured-data lifecycle of the detail page.  A script
\* structured-data-user-<id> is in the head only while a detail page that
\* has loaded the user <id> is the activated page.
C9_NoUserScriptAfterLeave ==
  \A i \in 1..Len(head.scripts) :
    head.scripts[i].id \in UserScriptIds =>
      /\ route.page = "detail"
      /\ comp.user /= <<>>
      /\ head.scripts[i].id = "structured-data-" \o UserDocId(comp.user[1])

\* C13: detail resolver on success.  When the detail route is activated for
\* the id of a stored user u, the resolved metadata has the title
\* "<u.name> - User Profile | <site name>" (so it contains u.name), u.bio as
\* description when the bio is non-empty, u.avatar or else the site default
\* image as image, getFullUrl('/users/' + u.id) as url, and type 'profile'.
C13_DetailResolverSuccess ==
  (route.page = "detail" /\ IsStored(Number(route.param))) =>
    \E i \in 1..Len(mockUsers) :
      LET u == mockUsers[i]
      IN  /\ IdEquals(u, Number(route.param))
          /\ route.seo.title = u.name \o " - User Profile | Angular SSR Demo"
          /\ Truthy(u, "bio") => route.seo.description = u.bio
          /\ route.seo.image
               = (IF Truthy(u, "avatar") THEN u.avatar ELSE defaultOgImage)
          /\ route.seo.url
               = getFullUrl(<<"/", "users", "/", ToString(u.id)>>)
          /\ route.seo.type = "profile"

\* /users/2 resolved: the metadata of Bob Martinez
C13_Witness ==
  /\ route.page = "detail"
  /\ route.param = <<"2">>
  /\ route.seo.title = "Bob Martinez - User Profile | Angular SSR Demo"
  /\ route.seo.description = "Data scientist and machine learning enthusiast. Transforming raw data into actionable insights for businesses."
  /\ route.seo.image = "https://images.unsplash.com/photo-1500648767791-00dcc994a43e?w=1200&h=630&fit=crop"
  /\ route.seo.url = "https://angular-ssr-demo.example.com/users/2"
  /\ route.seo.type = "profile"

\* C14: a non-numeric id parameter is treated like an unknown id.  The
\* lookup made for an id parameter that is not a number ends in an error
\* (entity not found), and the detail route is never activated for such a
\* parameter with metadata built from a stored user.
C14_InvalidIdNotFound ==
  /\ (emitted.kind /= "none" /\ emitted.id.nan) => emitted.kind = "error"
  /\ (route.page = "detail" /\ Number(route.param).nan)
       => /\ route.seo \notin StoredSeo
          /\ route.seo.title \notin PersonalTitles

(***************************************************************************)
(* Further properties of SeoService, checked under Spec.                   *)
(***************************************************************************)
RECURSIVE CommaSeparated(_)
\* the elements of ks in order, each but the first preceded by ", "
CommaSeparated(ks) ==
  IF ks = <<>> THEN ""
  ELSE IF Len(ks) = 1 THEN ks[1]
  ELSE CommaSeparated(SubSeq(ks, 1, Len(ks) - 1)) \o ", " \o ks[Len(ks)]

\* C15: keyword join.  After setKeywords(ks) the head has one name=keywords
\* tag whose content is the elements of ks in order separated by ", ": the
\* keyword itself for a single keyword, and the empty string (tag present)
\* for the empty list.
C15_KeywordsJoin ==
  last.op = "setKeywords" =>
    LET ks == last.data.keywords
        c  == head.meta["name=keywords"]
    IN  /\ Len(c) = 1
        /\ c[1] = CommaSeparated(ks)
        /\ ks = <<>> => c[1] = ""
        /\ Len(ks) = 1 => c[1] = ks[1]

\* setKeywords(["a","b","c"]) on a head whose keywords tag held "angular"
C15_Witness ==
  /\ last.op = "setKeywords"
  /\ last.data.keywords = <<"a", "b", "c">>
  /\ last.before.meta["name=keywords"] = <<"angular">>
  /\ head.meta["name=keywords"] = <<"a, b, c">>

\* C16: forced-empty Open Graph and Twitter groups.  After setSeoData(M)
\* there is exactly one tag for each of og:title, og:description, og:image,
\* og:url, og:type, twitter:title, twitter:description and twitter:image; a
\* field M lacks gives the content "" (og:type gives "website"), whatever
\* the tag held before.
C16_ForcedEmptyGroups ==
  AfterSetSeoData =>
    LET M == last.data
        Field(f) == IF Has(M, f) THEN M[f] ELSE ""
    IN  /\ head.meta["property=og:title"] = <<Field("title")>>
        /\ head.meta["property=og:description"] = <<Field("description")>>
        /\ head.meta["property=og:image"] = <<Field("image")>>
        /\ head.meta["property=og:url"] = <<Field("url")>>
        /\ head.meta["property=og:type"]
             = <<IF Has(M, "type") THEN M.type ELSE "website">>
        /\ head.meta["name=twitter:title"] = <<Field("title")>>
        /\ head.meta["name=twitter:description"] = <<Field("description")>>
        /\ head.meta["name=twitter:image"] = <<Field("image")>>

\* the minimal record applied after the complete one: description, image
\* and url of the Open Graph and Twitter groups are blanked, og:type falls
\* back to "website"
C16_Witness ==
  /\ AfterSetSeoData
  /\ last.data = MinimalSeoData
  /\ last.before.meta["property=og:description"]
       = <<"A complete test description">>
  /\ last.before.meta["property=og:type"] = <<"article">>
  /\ head.meta["property=og:description"] = <<"">>
  /\ head.meta["property=og:image"] = <<"">>
  /\ head.meta["property=og:url"] = <<"">>
  /\ head.meta["property=og:type"] = <<"website">>
  /\ head.meta["name=twitter:description"] = <<"">>
  /\ head.meta["name=twitter:image"] = <<"">>

\* C17: article tags are gated on the page type.  setSeoData(M) writes
\* article:published_time, article:modified_time and name=author when M.type
\* is 'article' and the field is present; otherwise the tag is as it was
\* before the call.
C17_ArticleGated ==
  AfterSetSeoData =>
    LET M == last.data
        article == Has(M, "type") /\ M.type = "article"
        Gated(k, f) ==
          IF article /\ Truthy(M, f) THEN head.meta[k] = <<M[f]>>
          ELSE head.meta[k] = last.before.meta[k]
    IN  /\ Gated("property=article:published_time", "publishedTime")
        /\ Gated("property=article:modified_time", "modifiedTime")
        /\ Gated("name=author", "author")

\* C18: siteName and locale are inherited from the site configuration.
\* After setSeoData(M) for a M without siteName, og:site_name is
\* ConfigService.siteName; for a M without locale, og:locale is
\* ConfigService.defaultLocale.
C18_SiteDefaults ==
  AfterSetSeoData =>
    /\ ~Has(last.data, "siteName")
         => head.meta["property=og:site_name"] = <<"Angular SSR Demo">>
    /\ ~Has(last.data, "locale")
         => head.meta["property=og:locale"] = <<"en_US">>

\* every field C20 names is present and not empty
FullySpecified(M) ==
  \A f \in { "title", "description", "image", "url", "type", "siteName",
             "locale" } : Truthy(M, f)

\* C20: the head reflects a fully specified record.  After setSeoData(M)
\* with title, description, image, url, type, siteName and locale present:
\* document title, og:title and twitter:title are M.title; og:description
\* and twitter:description are M.description; og:image and twitter:image are
\* M.image; og:url and the one canonical link are M.url; og:type,
\* og:site_name and og:locale are the fields of M; og:image:width is "1200",
\* og:image:height "630" and twitter:card "summary_large_image".
C20_HeadReflectsRecord ==
  (AfterSetSeoData /\ FullySpecified(last.data)) =>
    LET M == last.data
    IN  /\ head.title = M.title
        /\ head.meta["property=og:title"] = <<M.title>>
        /\ head.meta["name=twitter:title"] = <<M.title>>
        /\ head.meta["property=og:description"] = <<M.description>>
        /\ head.meta["name=twitter:description"] = <<M.description>>
        /\ head.meta["property=og:image"] = <<M.image>>
        /\ head.meta["name=twitter:image"] = <<M.image>>
        /\ head.meta["property=og:url"] = <<M.url>>
        /\ head.links = <<M.url>>
        /\ head.meta["property=og:type"] = <<M.type>>
        /\ head.meta["property=og:site_name"] = <<M.siteName>>
        /\ head.meta["property=og:locale"] = <<M.locale>>
        /\ head.meta["property=og:image:width"] = <<"1200">>
        /\ head.meta["property=og:image:height"] = <<"630">>
        /\ head.meta["name=twitter:card"] = <<"summary_large_image">>

\* the record of the Open Graph test applied to a head that showed the
\* complete record
C20_Witness ==
  /\ AfterSetSeoData
  /\ last.data = OgSeoData
  /\ last.before.title = "Complete Test Page"
  /\ last.before.links = <<"https://example.com/test">>
  /\ head.title = "Test Title"
  /\ head.meta["property=og:title"] = <<"Test Title">>
  /\ head.meta["property=og:image:width"] = <<"1200">>
  /\ head.meta["property=og:image:height"] = <<"630">>
  /\ head.meta["name=twitter:card"] = <<"summary_large_image">>
  /\ head.links = <<"https://example.com/page">>

(***************************************************************************)
(* The schema builders called directly.  `last` records the builder, its   *)
(* argument and the schema it returned; the head is not touched.           *)
(***************************************************************************)
\* the argument of the documented createOrganizationSchema call, with the
\* two contact fields of the parameter type filled in
FullOrganization ==
  [ name         |-> "ABC Corp",
    url          |-> "https://example.com",
    description  |-> "Software development company",
    logo         |-> "https://example.com/logo.png",
    contactEmail |-> "info@example.com",
    contactPhone |-> "+1-555-0100" ]

\* the argument of the documented createWebSiteSchema call
FullWebSite ==
  [ name        |-> "My Awesome Site",
    url         |-> "https://example.com",
    description |-> "The best site for...",
    searchUrl   |-> "https://example.com/search?q={search_term_string}" ]

\* the value of the field f of full with its text emptied
Blank(full, f) ==
  CASE f = "address" -> [full.address EXCEPT !.street = ""]
    [] f = "company" -> [full.company EXCEPT !.name = ""]
    [] OTHER         -> ""

\* the records made of full by leaving out some of the optional fields and
\* emptying some of those kept
Variants(full, optional) ==
  { [f \in (DOMAIN full \ optional) \cup p[1] |->
       IF f \in p[2] THEN Blank(full, f) ELSE full[f]] :
      p \in { q \in (SUBSET optional) \X (SUBSET optional) :
                q[2] \subseteq q[1] } }

PersonInputs ==
  Variants(mockUsers[1],
           { "jobTitle", "phone", "website", "address", "company" })

OrganizationInputs ==
  Variants(FullOrganization,
           { "description", "logo", "contactEmail", "contactPhone" })

WebSiteInputs == Variants(FullWebSite, { "description", "searchUrl" })

\* crumbs with a url, without one, and with an empty one
CrumbSet ==
  { [ name |-> "Home", url |-> "https://example.com" ],
    [ name |-> "Users" ],
    [ name |-> "John Doe", url |-> "" ] }

BreadcrumbInputs ==
  UNION { [1..n -> CrumbSet] : n \in 0..MaxCrumbs }

CreatePersonSchema ==
  \E user \in PersonInputs :
    Call("createPersonSchema",
         [input |-> user, schema |-> createPersonSchema(user)], head)

CreateOrganizationSchema ==
  \E data \in OrganizationInputs :
    Call("createOrganizationSchema",
         [input |-> data, schema |-> createOrganizationSchema(data)], head)

CreateWebSiteSchema ==
  \E data \in WebSiteInputs :
    Call("createWebSiteSchema",
         [input |-> data, schema |-> createWebSiteSchema(data)], head)

CreateBreadcrumbSchema ==
  \E breadcrumbs \in BreadcrumbInputs :
    Call("createBreadcrumbSchema",
         [ input  |-> [breadcrumbs |-> breadcrumbs],
           schema |-> createBreadcrumbSchema(breadcrumbs) ], head)

NextSchemas ==
  \/ CreatePersonSchema
  \/ CreateOrganizationSchema
  \/ CreateWebSiteSchema
  \/ CreateBreadcrumbSchema

SpecSchemas == Init /\ [][NextSchemas]_vars

(***************************************************************************)
(* Properties of the schema builders, checked under SpecSchemas.           *)
(***************************************************************************)
BuilderOps ==
  { "createPersonSchema", "createOrganizationSchema", "createWebSiteSchema",
    "createBreadcrumbSchema" }

RECURSIVE HasBlank(_)
\* some property of the object, at any depth, is the empty string
HasBlank(entries) ==
  \E i \in 1..Len(entries) :
    \/ entries[i].kind = "string" /\ entries[i].s = ""
    \/ entries[i].kind \in {"object", "array"} /\ HasBlank(entries[i].o)

\* the object has the property k with a value
Defined(entries, k) ==
  \E i \in 1..Len(entries) : entries[i].k = k /\ IsDefined(entries[i])

\* the nested object held by the property k
Nested(entries, k) ==
  LET IsK(e) == e.k = k IN Head(SelectSeq(entries, IsK)).o

\* each optional property of the schema S is there only when the value it
\* comes from in the argument I is present and not empty
OnlyWhenPresent(op, I, S) ==
  CASE op = "createPersonSchema" ->
         /\ Defined(S, "jobTitle")  => Truthy(I, "jobTitle")
         /\ Defined(S, "email")     => Truthy(I, "email")
         /\ Defined(S, "telephone") => Truthy(I, "phone")
         /\ Defined(S, "image")     => Truthy(I, "avatar")
         /\ Defined(S, "url")       => Truthy(I, "website")
         /\ Defined(S, "worksFor")
              => Has(I, "company") /\ Truthy(I.company, "name")
         /\ Defined(S, "address") =>
              /\ Has(I, "address")
              /\ Defined(Nested(S, "address"), "streetAddress")
                   => Truthy(I.address, "street")
    [] op = "createOrganizationSchema" ->
         /\ Defined(S, "description") => Truthy(I, "description")
         /\ Defined(S, "logo")        => Truthy(I, "logo")
         /\ Defined(S, "contactPoint") =>
              /\ Defined(Nested(S, "contactPoint"), "telephone")
                   => Truthy(I, "contactPhone")
              /\ Defined(Nested(S, "contactPoint"), "email")
                   => Truthy(I, "contactEmail")
    [] op = "createWebSiteSchema" ->
         /\ Defined(S, "description")     => Truthy(I, "description")
         /\ Defined(S, "potentialAction") => Truthy(I, "searchUrl")
    [] op = "createBreadcrumbSchema" ->
         LET items == Nested(S, "itemListElement")
         IN  /\ Len(items) = Len(I.breadcrumbs)
             /\ \A i \in 1..Len(items) :
                  Defined(items[i].o, "item")
                    => Truthy(I.breadcrumbs[i], "url")

\* C19: the schema builders omit rather than blank.  The schema returned by
\* createPersonSchema, createOrganizationSchema, createWebSiteSchema or
\* createBreadcrumbSchema has an optional property, at any nesting level,
\* only when the value it comes from is present and not empty, and no
\* property of it is the empty string.
C19_OmitNotBlank ==
  last.op \in BuilderOps =>
    /\ ~HasBlank(last.data.schema)
    /\ OnlyWhenPresent(last.op, last.data.input, last.data.schema)

(***************************************************************************)
(* The map callback of userDetailSeoResolver applied to the user a lookup  *)
(* delivers.  `last` records the user and the metadata returned.           *)
(***************************************************************************)
\* the mock users with bio, jobTitle and company left out or emptied
ResolverUsers ==
  UNION { Variants(mockUsers[i], { "bio", "jobTitle", "company" }) :
            i \in 1..Len(mockUsers) }

ResolveUserDetail ==
  \E user \in ResolverUsers :
    Call("userDetailSeoResolver",
         [input |-> user, seo |-> UserDetailSeo(user)], head)

NextResolver == ResolveUserDetail

SpecResolver == Init /\ [][NextResolver]_vars

\* C22: detail description fallback.  For a user without bio the resolved
\* description is "View <name>'s profile. " followed by "<jobTitle> at
\* <company name>. " when both are non-empty, by nothing of the two when
\* the job title is missing, and closed by the fixed sentence; with a job
\* title it is never the text that has "undefined" where the company name
\* belongs.
C22_DescriptionFallback ==
  (last.op = "userDetailSeoResolver" /\ ~Truthy(last.data.input, "bio")) =>
    LET u       == last.data.input
        d       == last.data.seo.description
        job     == Truthy(u, "jobTitle")
        company == Has(u, "company") /\ Truthy(u.company, "name")
        lead    == "View " \o u.name \o "'s profile. "
        close   == "Contact information, professional background, and more."
    IN  /\ (job /\ company)
             => d = lead \o u.jobTitle \o " at " \o u.company.name \o ". "
                      \o close
        /\ ~job => d = lead \o close
        /\ job => d /= lead \o u.jobTitle \o " at undefined. " \o close

(***************************************************************************)
(* Properties of clearAllTags and of the tag keys, checked under Spec.     *)
(***************************************************************************)
\* C23: clearAllTags leaves the document title unchanged.  Right after
\* clearAllTags the title is the one the head had before the call.
C23_ClearKeepsTitle ==
  last.op = "clearAllTags" => head.title = last.before.title

\* a head with the title "Test Title" and a description tag is cleared: the
\* description is gone, the title stays
C23_Witness ==
  /\ last.op = "clearAllTags"
  /\ last.before.title = "Test Title"
  /\ last.before.meta["name=description"] /= <<>>
  /\ head.meta["name=description"] = <<>>
  /\ head.title = "Test Title"

\* C24: key uniqueness.  From the empty head, after any sequence of calls,
\* no selector has two meta tags, and right after a setter wrote a key the
\* one tag of the key has the content of that write.
C24_KeyUnique ==
  /\ \A k \in MetaKeys : Len(head.meta[k]) <= 1
  /\ last.op = "setDescription"
       => head.meta["name=description"] = <<last.data.description>>
  /\ last.op = "setKeywords"
       => head.meta["name=keywords"] = <<CommaSeparated(last.data.keywords)>>
  /\ last.op = "setRobots"
       => head.meta["name=robots"]
            = <<IF last.data.shouldIndex THEN "index,follow"
                ELSE "noindex,nofollow">>
  /\ (last.op = "setSeoData" /\ Truthy(last.data, "description"))
       => head.meta["name=description"] = <<last.data.description>>

\* the description tag written a second time: still one tag, with the new
\* content
C24_Witness ==
  /\ last.op = "setDescription"
  /\ last.data.description = "Updated description"
  /\ last.before.meta["name=description"] = <<"First description">>
  /\ head.meta["name=description"] = <<"Updated description">>

(***************************************************************************)
(* ConfigService.getFullUrl called directly.  `last` records the path and  *)
(* the url returned.                                                       *)
(***************************************************************************)
\* the pieces of the documented path '/users/123'
PieceSet == { "/", "users", "123" }

PathSet == UNION { [1..n -> PieceSet] : n \in 0..MaxPathLen }

GetFullUrl ==
  \E path \in PathSet :
    Call("getFullUrl", [path |-> path, url |-> getFullUrl(path)], head)

NextUrls == GetFullUrl

SpecUrls == Init /\ [][NextUrls]_vars

RECURSIVE StripSlashes(_)
\* the path without any of its leading slashes
StripSlashes(path) ==
  IF path /= <<>> /\ Head(path) = "/" THEN StripSlashes(Tail(path)) ELSE path

\* C25: slash normalization of getFullUrl.  For a path p without a leading
\* slash getFullUrl(p) is getFullUrl('/' + p), and for every path the result
\* is the base url, one '/', and the path without its leading slashes,
\* however many it has.
C25_SlashNormalized ==
  last.op = "getFullUrl" =>
    LET p == last.data.path
    IN  /\ (p = <<>> \/ Head(p) /= "/")
             => getFullUrl(<<"/">> \o p) = last.data.url
        /\ last.data.url
             = "https://angular-ssr-demo.example.com" \o "/"
                 \o Concat(StripSlashes(p))

(***************************************************************************)
(* Properties of the home and about pages, checked under SpecPages.        *)
(***************************************************************************)
\* how many scripts the head has under the key "structured-data-" + id
Count(h, id) == Cardinality(KeyAt(h.scripts, id))

\* C26: balanced structured-data lifecycle of the synchronous pages.  The
\* head has the 'website' document, once, exactly while the home page is the
\* activated page, and the 'organization' document, once, exactly while the
\* about page is; neither accumulates or stays after its page was left.
C26_BalancedLifecycle ==
  /\ Count(head, "website") = (IF route.page = "home" THEN 1 ELSE 0)
  /\ Count(head, "organization") = (IF route.page = "about" THEN 1 ELSE 0)

\* the about page entered from the home page: the 'website' document went
\* and the 'organization' document came
C26_Witness ==
  /\ route.page = "about"
  /\ Count(last.before, "website") = 1
  /\ Count(last.before, "organization") = 0
  /\ Count(head, "website") = 0
  /\ Count(head, "organization") = 1

(***************************************************************************)
(* setSeoData as the only call made, from the empty head.                  *)
(***************************************************************************)
NextSeoData == SetSeoData

SpecSeoData == Init /\ [][NextSeoData]_vars

\* C27: plain and social descriptions agree.  After any sequence of
\* setSeoData calls, a name=description tag in the head has the content of
\* og:description and of twitter:description.
C27_DescriptionsAgree ==
  head.meta["name=description"] /= <<>> =>
    /\ head.meta["property=og:description"] = head.meta["name=description"]
    /\ head.meta["name=twitter:description"] = head.meta["name=description"]

\* C28: canonical link and og:url agree.  After any sequence of setSeoData
\* calls, the href of a canonical link in the head is the content of og:url.
C28_CanonicalAgreesWithOgUrl ==
  head.links /= <<>> => head.meta["property=og:url"] = head.links


(***************************************************************************)
(* UserListComponent: the page of the route 'users'.  Its instances are    *)
(* kept in comp.lists in the order of their construction; `started` is the *)
(* position of an instance: whether its ngOnInit has run.                  *)
(***************************************************************************)
userListSeoResolver ==
  [ title       |-> "All Users - " \o siteName,
    description |-> "Browse our complete directory of users with full profiles, contact information, and professional details. Connect with developers, designers, and engineers.",
    keywords    |-> << "users", "directory", "profiles", "contacts",
                       "developers", "engineers", "team members" >>,
    image       |-> "https://images.unsplash.com/photo-1522071820081-009f0129c71c?w=1200&h=630&fit=crop",
    url         |-> getFullUrl(<<"/", "users">>),
    type        |-> "website",
    siteName    |-> siteName ]

\* of(this.mockUsers).pipe(delay(100)): one `next` with the mock users
getUsers == [ kind |-> "next", users |-> mockUsers ]

\* the field initialisers of a new instance
UserListComponent == [ users |-> <<>>, loading |-> TRUE, started |-> FALSE ]

\* the `next` callback of the subscription of ngOnInit, which leaves the
\* loading flag set
UserListComponent_onNext_keepLoading(c, users) == [c EXCEPT !.users = users]

\* the `next` callback of the subscription of ngOnInit
UserListComponent_onNext(c, users) ==
  [c EXCEPT !.users = users, !.loading = FALSE]

\* the `error` callback of the subscription of ngOnInit
UserListComponent_onError(c) == [c EXCEPT !.loading = FALSE]

\* the callback that a notification of getUsers runs
UserListComponent_notify(c, n) ==
  IF n.kind = "next" THEN UserListComponent_onNext(c, n.users)
  ELSE UserListComponent_onError(c)

\* the number of UserListComponent instances of a behaviour
MaxVisits == 3

Lists == IF "lists" \in DOMAIN comp THEN comp.lists ELSE <<>>

\* navigation to 'users': the resolver answers at once, the component of
\* the page left is destroyed and a UserListComponent is constructed
NavigateUserList ==
  /\ Len(Lists) < MaxVisits
  /\ route.page /= "list"
  /\ head' = Leave(head)
  /\ route' = [ page |-> "list", param |-> <<>>, inst |-> Len(Lists) + 1,
                seo |-> userListSeoResolver ]
  /\ comp' = [ lists |-> Append(Lists, UserListComponent) ]
  /\ UNCHANGED <<last, ncalls, pending, emitted>>

\* UserListComponent.ngOnInit: the route's SeoData is applied and getUsers
\* is subscribed
UserListComponent_ngOnInit ==
  /\ route.page = "list"
  /\ ~Lists[route.inst].started
  /\ LET seoData == route.seo
     IN  /\ head' = setSeoData(head, seoData)
         /\ last' = [ op |-> "setSeoData", data |-> seoData,
                      before |-> head,
                      by |-> [page |-> "list", inst |-> route.inst,
                              left |-> FALSE] ]
  /\ comp' = [ lists |-> [Lists EXCEPT ![route.inst].started = TRUE] ]
  /\ pending' = Append(pending, [ kind |-> "list", inst |-> route.inst,
                                  emit |-> getUsers ])
  /\ UNCHANGED <<route, ncalls, emitted>>

\* the notification of getUsers arrives; nothing unsubscribes it, so its
\* callback also runs on an instance that was destroyed
UsersComplete ==
  /\ pending /= <<>>
  /\ Head(pending).kind = "list"
  /\ LET e == Head(pending)
     IN  /\ comp' = [ lists |-> [Lists EXCEPT ![e.inst] =
                                   UserListComponent_notify(@, e.emit)] ]
         /\ emitted' = [ kind |-> e.emit.kind, inst |-> e.inst,
                         users |-> e.emit.users ]
  /\ pending' = Tail(pending)
  /\ UNCHANGED <<head, last, route, ncalls>>

\* a method of UserListComponent that throws 'Method not implemented.' and
\* changes no field
Throws(op) ==
  /\ route.page = "list"
  /\ last' = [ op |-> op, data |-> [threw |-> "Method not implemented."],
               before |-> head,
               by |-> [page |-> "list", inst |-> route.inst,
                       left |-> FALSE] ]
  /\ UNCHANGED <<head, ncalls, route, comp, pending, emitted>>

UserListComponent_load == Throws("load")

UserListComponent_error == Throws("error")

\* navigation from 'users' to '': UserListComponent has no ngOnDestroy, and
\* HomeComponent.ngOnInit runs
UserListToHome ==
  /\ route.page = "list"
  /\ Lists[route.inst].started
  /\ LET seoData == homeSeoResolver
     IN  /\ head' = HomeComponent_ngOnInit(head, seoData)
         /\ route' = [ page |-> "home", param |-> <<>>, inst |-> 0,
                       seo |-> seoData ]
         /\ last' = [ op |-> "addStructuredData",
                      data |-> [id |-> "website"], before |-> head,
                      by |-> [page |-> "home", inst |-> 0,
                              left |-> FALSE] ]
  /\ UNCHANGED <<ncalls, comp, pending, emitted>>

\* navigation from 'users' to 'about'
UserListToAbout ==
  /\ route.page = "list"
  /\ Lists[route.inst].started
  /\ LET seoData == aboutSeoResolver
     IN  /\ head' = AboutComponent_ngOnInit(head, seoData)
         /\ route' = [ page |-> "about", param |-> <<>>, inst |-> 0,
                       seo |-> seoData ]
         /\ last' = [ op |-> "addStructuredData",
                      data |-> [id |-> "organization"], before |-> head,
                      by |-> [page |-> "about", inst |-> 0,
                              left |-> FALSE] ]
  /\ UNCHANGED <<ncalls, comp, pending, emitted>>

NextUserList ==
  \/ NavigateUserList
  \/ UserListComponent_ngOnInit
  \/ UsersComplete
  \/ UserListComponent_load
  \/ UserListComponent_error
  \/ UserListToHome
  \/ UserListToAbout

SpecUserList == Init /\ [][NextUserList]_vars

\* ngOnInit runs in the change detection that follows the construction, and
\* the timer of delay(100) fires
SpecUserListLive ==
  /\ SpecUserList
  /\ WF_vars(UserListComponent_ngOnInit)
  /\ WF_vars(UsersComplete)

Instances == 1..MaxVisits

IsList(i) == i <= Len(Lists)

\* C30: an instance of UserListComponent whose loading has not started has
\* users equal to the empty list and loading equal to false, and loading
\* becomes true only in a call of load().
C30_FreshState ==
  /\ [](\A i \in Instances :
          IsList(i) /\ ~Lists[i].started =>
            Lists[i].users = <<>> /\ Lists[i].loading = FALSE)
  /\ [][\A i \in Instances :
          IsList(i) /\ ~Lists[i].loading /\ Lists[i].loading' =>
            last'.op = "load"]_vars

\* C29: once ngOnInit of an instance has subscribed getUsers, its loading
\* flag eventually is false; after a `next` the instance's users are the
\* emitted list, and the `error` callback would clear the flag as well.
C29_LoadingTerminates ==
  /\ \A i \in Instances :
       (IsList(i) /\ Lists[i].started /\ Lists[i].loading)
         ~> (IsList(i) /\ ~Lists[i].loading)
  /\ [][\A i \in Instances :
          UsersComplete /\ Head(pending).inst = i =>
            /\ ~Lists[i].loading'
            /\ emitted'.kind = "next" => Lists[i].users' = emitted'.users]_vars
  /\ [](\A i \in Instances :
          IsList(i) => ~UserListComponent_onError(Lists[i]).loading)

C29_Witness ==
  /\ emitted.kind = "next"
  /\ \E i \in Instances :
       /\ IsList(i)
       /\ Lists[i].started
       /\ ~Lists[i].loading
       /\ Lists[i].users = mockUsers

====
